---- MODULE Spec2Model ----
(***************************************************************************)
(* CloudWarden v3 AI agent (src/cloudwarden/agent/explainer.py): the       *)
(* registry probe of the constructor, the three analysis strategies of     *)
(* analyze_finding and the text handling they rest on.                     *)
(*                                                                         *)
(* A Python str is a sequence of one-character strings, so that strip,     *)
(* split, lower and the substring test are computed and not assumed.       *)
(* A float confidence is held in hundredths (0.85 is 85, 0.3 is 30).       *)
(***************************************************************************)
EXTENDS Integers, Sequences, FiniteSets, TLC

----------------------------------------------------------------------------
(* Bounds of the model *)

\* longest remediation response that is enumerated character by character
MaxLen == 2

\* longest remediation response over the alphabet of list markers
MaxParseLen == 3

----------------------------------------------------------------------------
(* Text primitives *)

\* stands for the bullet glyph U+2022, which the module's character set lacks
BULLET == "#"

Whitespace == {" ", "\n", "\t"}

Digits == {"0", "1", "2", "3", "4", "5", "6", "7", "8", "9"}

\* the characters line.lstrip('0123456789.-•) ') removes
MarkerChars == Digits \cup {".", "-", BULLET, ")", " "}

UpperCase == <<"A","B","C","D","E","F","G","H","I","J","K","L","M","N","O","P","Q","R","S","T","U","V","W","X","Y","Z">>

LowerCase == <<"a","b","c","d","e","f","g","h","i","j","k","l","m","n","o","p","q","r","s","t","u","v","w","x","y","z">>

lower_char(ch) ==
    IF \E i \in 1..Len(UpperCase) : UpperCase[i] = ch
    THEN LowerCase[CHOOSE i \in 1..Len(UpperCase) : UpperCase[i] = ch]
    ELSE ch

\* str.lower()
lower(t) == [i \in 1..Len(t) |-> lower_char(t[i])]

\* needle in hay, for a non-empty needle
Contains(hay, needle) ==
    \E i \in 1..(Len(hay) - Len(needle) + 1) :
        SubSeq(hay, i, i + Len(needle) - 1) = needle

RECURSIVE lstrip(_, _)
lstrip(t, cs) ==
    IF t # <<>> /\ Head(t) \in cs THEN lstrip(Tail(t), cs) ELSE t

RECURSIVE rstrip(_, _)
rstrip(t, cs) ==
    IF t # <<>> /\ t[Len(t)] \in cs THEN rstrip(SubSeq(t, 1, Len(t) - 1), cs) ELSE t

\* str.strip()
strip(t) == rstrip(lstrip(t, Whitespace), Whitespace)

\* str.split('\n')
RECURSIVE split_lines(_)
split_lines(t) ==
    IF \A i \in 1..Len(t) : t[i] # "\n"
    THEN <<t>>
    ELSE LET i == CHOOSE k \in 1..Len(t) :
                      t[k] = "\n" /\ \A j \in 1..(k - 1) : t[j] # "\n"
         IN  <<SubSeq(t, 1, i - 1)>> \o split_lines(SubSeq(t, i + 1, Len(t)))

RECURSIVE join(_, _)
join(parts, sep) ==
    IF parts = <<>> THEN <<>>
    ELSE IF Len(parts) = 1 THEN parts[1]
    ELSE parts[1] \o sep \o join(Tail(parts), sep)

----------------------------------------------------------------------------
(* Finding: a dict of string keys and string values, in insertion order *)

HasKey(finding, key) == \E i \in 1..Len(finding) : finding[i].k = key

\* finding.get(key, default)
get(finding, key, default) ==
    IF HasKey(finding, key)
    THEN finding[CHOOSE i \in 1..Len(finding) : finding[i].k = key].v
    ELSE default

\* str(finding): {'k': 'v', 'k': 'v'}
str_finding(finding) ==
    <<"{">> \o
    join([i \in 1..Len(finding) |->
            <<"'">> \o finding[i].k \o <<"'",":"," ","'">> \o finding[i].v \o <<"'">>],
         <<","," ">>)
    \o <<"}">>

K_type == <<"t","y","p","e">>
K_severity == <<"s","e","v","e","r","i","t","y">>
K_resource_id == <<"r","e","s","o","u","r","c","e","_","i","d">>
K_description == <<"d","e","s","c","r","i","p","t","i","o","n">>

RF_BROAD == <<"O","v","e","r","l","y"," ","b","r","o","a","d"," ","p","e","r","m","i","s","s","i","o","n","s">>
RF_PUBLIC == <<"P","u","b","l","i","c"," ","i","n","t","e","r","n","e","t"," ","e","x","p","o","s","u","r","e">>
RF_MFA == <<"M","u","l","t","i","-","f","a","c","t","o","r"," ","a","u","t","h","e","n","t","i","c","a","t","i","o","n"," ","i","s","s","u","e","s">>
RF_HIGH == <<"H","i","g","h"," ","s","e","v","e","r","i","t","y"," ","s","e","c","u","r","i","t","y"," ","v","u","l","n","e","r","a","b","i","l","i","t","y">>

\* a scan that looks at the severity before the keywords
identify_risk_factors_severity_first(finding) ==
    LET text == lower(str_finding(finding))
        severity == lower(get(finding, K_severity, <<>>))
    IN  (IF severity \in {<<"c","r","i","t","i","c","a","l">>, <<"h","i","g","h">>} THEN <<RF_HIGH>> ELSE <<>>)
        \o (IF Contains(text, <<"w","i","l","d","c","a","r","d">>) \/ Contains(text, <<"*",":","*">>)
            THEN <<RF_BROAD>> ELSE <<>>)
        \o (IF Contains(text, <<"p","u","b","l","i","c">>) THEN <<RF_PUBLIC>> ELSE <<>>)
        \o (IF Contains(text, <<"m","f","a">>) THEN <<RF_MFA>> ELSE <<>>)

\* a scan that compares the severity as it is written, not lower-cased
identify_risk_factors_case_sensitive(finding) ==
    LET text == lower(str_finding(finding))
        severity == get(finding, K_severity, <<>>)
    IN  (IF Contains(text, <<"w","i","l","d","c","a","r","d">>) \/ Contains(text, <<"*",":","*">>)
         THEN <<RF_BROAD>> ELSE <<>>)
        \o (IF Contains(text, <<"p","u","b","l","i","c">>) THEN <<RF_PUBLIC>> ELSE <<>>)
        \o (IF Contains(text, <<"m","f","a">>) THEN <<RF_MFA>> ELSE <<>>)
        \o (IF severity \in {<<"c","r","i","t","i","c","a","l">>, <<"h","i","g","h">>} THEN <<RF_HIGH>> ELSE <<>>)

\* lines 191-208
identify_risk_factors(finding) ==
    LET text == lower(str_finding(finding))
        severity == lower(get(finding, K_severity, <<>>))
    IN  (IF Contains(text, <<"w","i","l","d","c","a","r","d">>) \/ Contains(text, <<"*",":","*">>)
         THEN <<RF_BROAD>> ELSE <<>>)
        \o (IF Contains(text, <<"p","u","b","l","i","c">>) THEN <<RF_PUBLIC>> ELSE <<>>)
        \o (IF Contains(text, <<"m","f","a">>) THEN <<RF_MFA>> ELSE <<>>)
        \o (IF severity \in {<<"c","r","i","t","i","c","a","l">>, <<"h","i","g","h">>} THEN <<RF_HIGH>> ELSE <<>>)

\* confidence_score of a model-derived analysis, in hundredths
CONF_MODEL == 85

\* confidence_score of the synthetic analysis, in hundredths
CONF_SYNTHETIC == 30

FALLBACK_STEPS ==
    << <<"R","e","v","i","e","w"," ","t","h","e"," ","s","e","c","u","r","i","t","y"," ","f","i","n","d","i","n","g"," ","d","e","t","a","i","l","s">>,
       <<"C","o","n","s","u","l","t"," ","A","W","S"," ","s","e","c","u","r","i","t","y"," ","b","e","s","t"," ","p","r","a","c","t","i","c","e","s">>,
       <<"I","m","p","l","e","m","e","n","t"," ","a","p","p","r","o","p","r","i","a","t","e"," ","s","e","c","u","r","i","t","y"," ","c","o","n","t","r","o","l","s">>,
       <<"V","a","l","i","d","a","t","e"," ","a","n","d"," ","t","e","s","t"," ","t","h","e"," ","r","e","m","e","d","i","a","t","i","o","n">> >>

AIAnalysis(bi, te, steps, rf, conf) ==
    [business_impact |-> bi, technical_explanation |-> te,
     remediation_steps |-> steps, risk_factors |-> rf, confidence_score |-> conf]

\* a synthetic analysis that takes the prompts' default 'Unknown' for a
\* missing severity
generate_fallback_analysis_unknown(finding) ==
    LET finding_type == get(finding, K_type, <<"S","e","c","u","r","i","t","y"," ","I","s","s","u","e">>)
        severity == get(finding, K_severity, <<"U","n","k","n","o","w","n">>)
    IN  AIAnalysis(
            <<"T","h","i","s"," ">> \o severity \o <<" ","s","e","v","e","r","i","t","y"," ">> \o finding_type
                \o <<" ","r","e","q","u","i","r","e","s"," ","a","t","t","e","n","t","i","o","n"," ","t","o"," ","m","a","i","n","t","a","i","n"," ","s","e","c","u","r","i","t","y"," ","p","o","s","t","u","r","e",".">>,
            <<"S","e","c","u","r","i","t","y"," ","i","s","s","u","e"," ","d","e","t","e","c","t","e","d",":"," ">>
                \o get(finding, K_description, <<"N","o"," ","d","e","t","a","i","l","s"," ","a","v","a","i","l","a","b","l","e">>),
            FALLBACK_STEPS,
            identify_risk_factors(finding),
            CONF_SYNTHETIC)

\* lines 261-277
generate_fallback_analysis(finding) ==
    LET finding_type == get(finding, K_type, <<"S","e","c","u","r","i","t","y"," ","I","s","s","u","e">>)
        severity == get(finding, K_severity, <<"M","e","d","i","u","m">>)
    IN  AIAnalysis(
            <<"T","h","i","s"," ">> \o severity \o <<" ","s","e","v","e","r","i","t","y"," ">> \o finding_type
                \o <<" ","r","e","q","u","i","r","e","s"," ","a","t","t","e","n","t","i","o","n"," ","t","o"," ","m","a","i","n","t","a","i","n"," ","s","e","c","u","r","i","t","y"," ","p","o","s","t","u","r","e",".">>,
            <<"S","e","c","u","r","i","t","y"," ","i","s","s","u","e"," ","d","e","t","e","c","t","e","d",":"," ">>
                \o get(finding, K_description, <<"N","o"," ","d","e","t","a","i","l","s"," ","a","v","a","i","l","a","b","l","e">>),
            FALLBACK_STEPS,
            identify_risk_factors(finding),
            CONF_SYNTHETIC)

----------------------------------------------------------------------------
(* Inference client *)

\* what ollama_client.generate does for one prompt: it raises error, or it
\* returns a mapping whose 'response' entry is the text (empty when missing)
GenFailure(msg) == [ok |-> FALSE, response |-> <<>>, error |-> msg]
GenSuccess(text) == [ok |-> TRUE, response |-> text, error |-> <<>>]

\* an exception that leaves a function, or the value it returns
Raises == [raised |-> TRUE, text |-> <<>>]
Returns(text) == [raised |-> FALSE, text |-> text]

\* a helper that lets the transport exception through (the try of lines
\* 215-230 missing)
query_ai_propagates(is_avail, outcome) ==
    IF ~is_avail THEN Returns(<<"A","I"," ","a","n","a","l","y","s","i","s"," ","n","o","t"," ","a","v","a","i","l","a","b","l","e">>)
    ELSE IF outcome.ok THEN Returns(strip(outcome.response))
    ELSE Raises

\* lines 210-230: every failure of the call comes back as text
query_ai(is_avail, outcome) ==
    IF ~is_avail THEN Returns(<<"A","I"," ","a","n","a","l","y","s","i","s"," ","n","o","t"," ","a","v","a","i","l","a","b","l","e">>)
    ELSE IF outcome.ok THEN Returns(strip(outcome.response))
    ELSE Returns(<<"A","I"," ","a","n","a","l","y","s","i","s"," ","f","a","i","l","e","d",":"," ">> \o outcome.error)

----------------------------------------------------------------------------
(* Line-oriented steps parsing of the remediation response *)

\* a test that takes only numbered lines for steps
is_step_line_digits_only(line) ==
    line # <<>> /\ line[1] \in Digits

\* line 184
is_step_line(line) ==
    line # <<>> /\ (line[1] \in Digits \/ line[1] = "-" \/ line[1] = BULLET)

RECURSIVE parse_step_lines(_)
parse_step_lines(lines) ==
    IF lines = <<>> THEN <<>>
    ELSE LET line == strip(Head(lines))
             step == strip(lstrip(line, MarkerChars))
         IN  (IF is_step_line(line) /\ step # <<>> THEN <<step>> ELSE <<>>)
             \o parse_step_lines(Tail(lines))

\* the parsing that takes every non-empty line as a step
parse_remediation_all_lines(response) ==
    LET lines == split_lines(response)
        steps == SelectSeq([i \in 1..Len(lines) |-> strip(lines[i])],
                           LAMBDA l : l # <<>>)
    IN  IF steps # <<>> THEN steps ELSE <<response>>

\* lines 180-189
parse_remediation(response) ==
    LET steps == parse_step_lines(split_lines(response))
    IN  IF steps # <<>> THEN steps ELSE <<response>>

----------------------------------------------------------------------------
(* JSON documents of the combined strategy *)

\* a decoded JSON value: null, a number, a string or an array of scalars
JNull == [t |-> "null", n |-> 0, s |-> <<>>, items |-> <<>>]
JNum(n) == [t |-> "num", n |-> n, s |-> <<>>, items |-> <<>>]
JStr(s) == [t |-> "str", n |-> 0, s |-> s, items |-> <<>>]
JList(items) == [t |-> "list", n |-> 0, s |-> <<>>, items |-> items]

\* a decoded document: an object (its members in order) or something else
JObject(members) == [object |-> TRUE, members |-> members]
JNotObject == [object |-> FALSE, members |-> <<>>]

K_business_impact == <<"b","u","s","i","n","e","s","s","_","i","m","p","a","c","t">>
K_technical_explanation == <<"t","e","c","h","n","i","c","a","l","_","e","x","p","l","a","n","a","t","i","o","n">>
K_remediation_steps == <<"r","e","m","e","d","i","a","t","i","o","n","_","s","t","e","p","s">>
K_risk_factors == <<"r","i","s","k","_","f","a","c","t","o","r","s">>

\* data.get(key): the member's value, None when the key is missing
json_get(data, key) ==
    IF \E i \in 1..Len(data.members) : data.members[i].k = key
    THEN data.members[CHOOSE i \in 1..Len(data.members) : data.members[i].k = key].v
    ELSE JNull

\* Python truth value of a decoded value
truthy(v) ==
    CASE v.t = "null" -> FALSE
      [] v.t = "num" -> v.n # 0
      [] v.t = "str" -> v.s # <<>>
      [] v.t = "list" -> v.items # <<>>

\* (v or "").strip(): AttributeError for a truthy value that is no string
text_field(v) ==
    IF ~truthy(v) THEN Returns(<<>>)
    ELSE IF v.t = "str" THEN Returns(strip(v.s))
    ELSE Raises

\* str(s) of a scalar
py_str(v) ==
    CASE v.t = "null" -> <<"N","o","n","e">>
      [] v.t = "num" -> IF v.n = 0 THEN <<"0">> ELSE <<"5">>
      [] v.t = "str" -> v.s
      [] v.t = "list" -> <<"[","]">>

\* the elements 'for s in (v or [])' visits: the items of an array, the
\* characters of a string; a truthy number is not iterable
iter_items(v) ==
    IF ~truthy(v) THEN <<>>
    ELSE IF v.t = "list" THEN v.items
    ELSE IF v.t = "str" THEN [i \in 1..Len(v.s) |-> JStr(<<v.s[i]>>)]
    ELSE <<>>

\* [s.strip() for s in (v or []) if str(s).strip()]
list_field(v) ==
    LET items == iter_items(v)
        kept == SelectSeq(items, LAMBDA s : strip(py_str(s)) # <<>>)
    IN  IF truthy(v) /\ v.t = "num" THEN [raised |-> TRUE, list |-> <<>>]
        ELSE IF \E i \in 1..Len(kept) : kept[i].t # "str"
             THEN [raised |-> TRUE, list |-> <<>>]
        ELSE [raised |-> FALSE, list |-> [i \in 1..Len(kept) |-> strip(kept[i].s)]]

\* texts the model can answer the combined prompt with, and what json.loads
\* makes of each; a text that is not listed here does not decode
J_full == <<"{","\"","b","u","s","i","n","e","s","s","_","i","m","p","a","c","t","\"",":"," ","\""," ","D","a","t","a"," ","e","x","p","o","s","u","r","e"," ","\"",","," ","\"","t","e","c","h","n","i","c","a","l","_","e","x","p","l","a","n","a","t","i","o","n","\"",":"," ","\"","P","o","l","i","c","y"," ","a","l","l","o","w","s"," ","*",":","*","\"",","," ","\"","r","e","m","e","d","i","a","t","i","o","n","_","s","t","e","p","s","\"",":"," ","[","\"","R","e","s","t","r","i","c","t"," ","a","c","t","i","o","n","s"," ","\"",","," ","\"","E","n","a","b","l","e"," ","M","F","A","\"","]",","," ","\"","r","i","s","k","_","f","a","c","t","o","r","s","\"",":"," ","[","\""," ","B","r","o","a","d"," ","a","c","c","e","s","s","\"","]","}">>
J_blank_item == <<"{","\"","b","u","s","i","n","e","s","s","_","i","m","p","a","c","t","\"",":"," ","\"","O","u","t","a","g","e","\"",","," ","\"","t","e","c","h","n","i","c","a","l","_","e","x","p","l","a","n","a","t","i","o","n","\"",":"," ","\"","O","p","e","n"," ","p","o","r","t","\"",","," ","\"","r","e","m","e","d","i","a","t","i","o","n","_","s","t","e","p","s","\"",":"," ","[","\"","C","l","o","s","e"," ","p","o","r","t","\"",","," ","\""," ","\"","]",","," ","\"","r","i","s","k","_","f","a","c","t","o","r","s","\"",":"," ","[","\"","E","x","p","o","s","u","r","e","\"","]","}">>
J_empty == <<"{","}">>
J_partial == <<"{","\"","b","u","s","i","n","e","s","s","_","i","m","p","a","c","t","\"",":"," ","\"","O","u","t","a","g","e","\"","}">>
J_nulls == <<"{","\"","b","u","s","i","n","e","s","s","_","i","m","p","a","c","t","\"",":"," ","n","u","l","l",","," ","\"","t","e","c","h","n","i","c","a","l","_","e","x","p","l","a","n","a","t","i","o","n","\"",":"," ","\"","\"",","," ","\"","r","e","m","e","d","i","a","t","i","o","n","_","s","t","e","p","s","\"",":"," ","[","]",","," ","\"","r","i","s","k","_","f","a","c","t","o","r","s","\"",":"," ","n","u","l","l","}">>
J_num_field == <<"{","\"","b","u","s","i","n","e","s","s","_","i","m","p","a","c","t","\"",":"," ","5",","," ","\"","t","e","c","h","n","i","c","a","l","_","e","x","p","l","a","n","a","t","i","o","n","\"",":"," ","\"","O","p","e","n"," ","p","o","r","t","\"",","," ","\"","r","e","m","e","d","i","a","t","i","o","n","_","s","t","e","p","s","\"",":"," ","[","\"","C","l","o","s","e"," ","p","o","r","t","\"","]",","," ","\"","r","i","s","k","_","f","a","c","t","o","r","s","\"",":"," ","[","\"","E","x","p","o","s","u","r","e","\"","]","}">>
J_num_item == <<"{","\"","b","u","s","i","n","e","s","s","_","i","m","p","a","c","t","\"",":"," ","\"","O","u","t","a","g","e","\"",","," ","\"","t","e","c","h","n","i","c","a","l","_","e","x","p","l","a","n","a","t","i","o","n","\"",":"," ","\"","O","p","e","n"," ","p","o","r","t","\"",","," ","\"","r","e","m","e","d","i","a","t","i","o","n","_","s","t","e","p","s","\"",":"," ","[","5","]",","," ","\"","r","i","s","k","_","f","a","c","t","o","r","s","\"",":"," ","[","\"","E","x","p","o","s","u","r","e","\"","]","}">>
J_str_steps == <<"{","\"","b","u","s","i","n","e","s","s","_","i","m","p","a","c","t","\"",":"," ","\"","O","u","t","a","g","e","\"",","," ","\"","t","e","c","h","n","i","c","a","l","_","e","x","p","l","a","n","a","t","i","o","n","\"",":"," ","\"","O","p","e","n"," ","p","o","r","t","\"",","," ","\"","r","e","m","e","d","i","a","t","i","o","n","_","s","t","e","p","s","\"",":"," ","\"","a","b","\"",","," ","\"","r","i","s","k","_","f","a","c","t","o","r","s","\"",":"," ","[","\"","E","x","p","o","s","u","r","e","\"","]","}">>
J_array == <<"[","]">>
T_truncated == <<"{","\"","b","u","s","i","n","e","s","s","_","i","m","p","a","c","t","\"",":"," ","\"","O","u","t","a","g","e","\"">>
T_prose == <<"S","u","r","e",","," ","h","e","r","e"," ","i","s"," ","t","h","e"," ","a","n","a","l","y","s","i","s">>

Member(k, v) == [k |-> k, v |-> v]

JsonTable ==
    << [text |-> J_full,
        doc |-> JObject(<<
            Member(K_business_impact, JStr(<<" ","D","a","t","a"," ","e","x","p","o","s","u","r","e"," ">>)),
            Member(K_technical_explanation, JStr(<<"P","o","l","i","c","y"," ","a","l","l","o","w","s"," ","*",":","*">>)),
            Member(K_remediation_steps,
                   JList(<<JStr(<<"R","e","s","t","r","i","c","t"," ","a","c","t","i","o","n","s"," ">>), JStr(<<"E","n","a","b","l","e"," ","M","F","A">>)>>)),
            Member(K_risk_factors, JList(<<JStr(<<" ","B","r","o","a","d"," ","a","c","c","e","s","s">>)>>)) >>)],
       [text |-> J_blank_item,
        doc |-> JObject(<<
            Member(K_business_impact, JStr(<<"O","u","t","a","g","e">>)),
            Member(K_technical_explanation, JStr(<<"O","p","e","n"," ","p","o","r","t">>)),
            Member(K_remediation_steps,
                   JList(<<JStr(<<"C","l","o","s","e"," ","p","o","r","t">>), JStr(<<" ">>)>>)),
            Member(K_risk_factors, JList(<<JStr(<<"E","x","p","o","s","u","r","e">>)>>)) >>)],
       [text |-> J_empty, doc |-> JObject(<<>>)],
       [text |-> J_partial,
        doc |-> JObject(<<Member(K_business_impact, JStr(<<"O","u","t","a","g","e">>))>>)],
       [text |-> J_nulls,
        doc |-> JObject(<<
            Member(K_business_impact, JNull),
            Member(K_technical_explanation, JStr(<<>>)),
            Member(K_remediation_steps, JList(<<>>)),
            Member(K_risk_factors, JNull) >>)],
       [text |-> J_num_field,
        doc |-> JObject(<<
            Member(K_business_impact, JNum(5)),
            Member(K_technical_explanation, JStr(<<"O","p","e","n"," ","p","o","r","t">>)),
            Member(K_remediation_steps, JList(<<JStr(<<"C","l","o","s","e"," ","p","o","r","t">>)>>)),
            Member(K_risk_factors, JList(<<JStr(<<"E","x","p","o","s","u","r","e">>)>>)) >>)],
       [text |-> J_num_item,
        doc |-> JObject(<<
            Member(K_business_impact, JStr(<<"O","u","t","a","g","e">>)),
            Member(K_technical_explanation, JStr(<<"O","p","e","n"," ","p","o","r","t">>)),
            Member(K_remediation_steps, JList(<<JNum(5)>>)),
            Member(K_risk_factors, JList(<<JStr(<<"E","x","p","o","s","u","r","e">>)>>)) >>)],
       [text |-> J_str_steps,
        doc |-> JObject(<<
            Member(K_business_impact, JStr(<<"O","u","t","a","g","e">>)),
            Member(K_technical_explanation, JStr(<<"O","p","e","n"," ","p","o","r","t">>)),
            Member(K_remediation_steps, JStr(<<"a","b">>)),
            Member(K_risk_factors, JList(<<JStr(<<"E","x","p","o","s","u","r","e">>)>>)) >>)],
       [text |-> J_array, doc |-> JNotObject] >>

\* json.loads(raw): the document, or a decode error
json_loads(raw) ==
    IF \E i \in 1..Len(JsonTable) : JsonTable[i].text = raw
    THEN [raised |-> FALSE,
          doc |-> JsonTable[CHOOSE i \in 1..Len(JsonTable) : JsonTable[i].text = raw].doc]
    ELSE [raised |-> TRUE, doc |-> JNotObject]

NoAnalysis == AIAnalysis(<<>>, <<>>, <<>>, <<>>, 0)

\* what a strategy hands back: an exception that escapes it, no result
\* (None), or an analysis
Escapes == [raised |-> TRUE, none |-> TRUE, analysis |-> NoAnalysis]
NoResult == [raised |-> FALSE, none |-> TRUE, analysis |-> NoAnalysis]
Result(a) == [raised |-> FALSE, none |-> FALSE, analysis |-> a]

\* a combined strategy that gives no result unless the payload carries all
\* four keys
analyze_combined_requires_keys(is_avail, outcome) ==
    LET raw == query_ai(is_avail, outcome)
        dec == json_loads(raw.text)
        bi == text_field(json_get(dec.doc, K_business_impact))
        te == text_field(json_get(dec.doc, K_technical_explanation))
        steps == list_field(json_get(dec.doc, K_remediation_steps))
        rf == list_field(json_get(dec.doc, K_risk_factors))
    IN  IF raw.raised THEN Escapes
        ELSE IF dec.raised \/ ~dec.doc.object THEN NoResult
        ELSE IF \E k \in {K_business_impact, K_technical_explanation,
                          K_remediation_steps, K_risk_factors} :
                    \A i \in 1..Len(dec.doc.members) : dec.doc.members[i].k # k
             THEN NoResult
        ELSE IF bi.raised \/ te.raised \/ steps.raised \/ rf.raised THEN NoResult
        ELSE Result(AIAnalysis(bi.text, te.text, steps.list, rf.list, CONF_MODEL))

\* lines 247-259: the helper's text, then the try around the decoding and
\* the extraction of the four fields; every exception of the try gives None
analyze_combined(is_avail, outcome) ==
    LET raw == query_ai(is_avail, outcome)
        dec == json_loads(raw.text)
        bi == text_field(json_get(dec.doc, K_business_impact))
        te == text_field(json_get(dec.doc, K_technical_explanation))
        steps == list_field(json_get(dec.doc, K_remediation_steps))
        rf == list_field(json_get(dec.doc, K_risk_factors))
    IN  IF raw.raised THEN Escapes
        ELSE IF dec.raised \/ ~dec.doc.object THEN NoResult
        ELSE IF bi.raised \/ te.raised \/ steps.raised \/ rf.raised THEN NoResult
        ELSE Result(AIAnalysis(bi.text, te.text, steps.list, rf.list, CONF_MODEL))

\* lines 178-189: the helper's text parsed into steps
generate_remediation_steps(is_avail, outcome) ==
    LET response == query_ai(is_avail, outcome)
    IN  IF response.raised THEN [raised |-> TRUE, list |-> <<>>]
        ELSE [raised |-> FALSE, list |-> parse_remediation(response.text)]

----------------------------------------------------------------------------
(* Registry probe of the constructor *)

\* the status code the probe takes for success
HTTP_OK == 200

\* no model: Python's None
NoModel == "None"

\* line 90: the truth value of a model name (None and '' are false)
truthy_name(name) == name \notin {NoModel, ""}

\* the names of the listing's entries that carry a name
model_names(models) ==
    {models[i].name : i \in {j \in 1..Len(models) : models[j].has_name}}

\* a constructor whose probe is not inside a try: a transport failure or an
\* unparsable listing leaves it as an exception
initialize_ollama_unguarded(cfg, probe) ==
    LET base == [config |-> cfg, ollama_client |-> "None", available |-> FALSE,
                 raised |-> FALSE, probes |-> 1]
        names == model_names(IF probe.shape = "dict" THEN probe.models ELSE <<>>)
        model_to_use ==
            IF cfg.model \in names THEN cfg.model
            ELSE IF cfg.fallback_model \in names THEN cfg.fallback_model
            ELSE NoModel
    IN  IF ~probe.library THEN [base EXCEPT !.probes = 0]
        ELSE IF ~probe.transport_ok THEN [base EXCEPT !.raised = TRUE]
        ELSE IF probe.status # HTTP_OK THEN base
        ELSE IF ~probe.parsable \/ probe.shape = "list"
             THEN [base EXCEPT !.ollama_client = "Client", !.raised = TRUE]
        ELSE IF truthy_name(model_to_use)
             THEN [base EXCEPT !.ollama_client = "Client", !.available = TRUE,
                               !.config.model = model_to_use]
        ELSE [base EXCEPT !.ollama_client = "Client"]

\* a resolution that looks at the fallback model first
initialize_ollama_fallback_first(cfg, probe) ==
    LET base == [config |-> cfg, ollama_client |-> "None", available |-> FALSE,
                 raised |-> FALSE, probes |-> 1]
        names == model_names(IF probe.shape = "dict" THEN probe.models ELSE <<>>)
        model_to_use ==
            IF cfg.fallback_model \in names THEN cfg.fallback_model
            ELSE IF cfg.model \in names THEN cfg.model
            ELSE NoModel
    IN  IF ~probe.library THEN [base EXCEPT !.probes = 0]
        ELSE IF ~probe.transport_ok THEN base
        ELSE IF probe.status # HTTP_OK THEN base
        ELSE IF ~probe.parsable \/ probe.shape = "list"
             THEN [base EXCEPT !.ollama_client = "Client"]
        ELSE IF truthy_name(model_to_use)
             THEN [base EXCEPT !.ollama_client = "Client", !.available = TRUE,
                               !.config.model = model_to_use]
        ELSE [base EXCEPT !.ollama_client = "Client"]

\* a resolution that writes its outcome to the Configuration even when no
\* model was resolved (the assignment of line 91 outside the if of line 90)
initialize_ollama_writes_unresolved(cfg, probe) ==
    LET base == [config |-> cfg, ollama_client |-> "None", available |-> FALSE,
                 raised |-> FALSE, probes |-> 1]
        names == model_names(IF probe.shape = "dict" THEN probe.models ELSE <<>>)
        model_to_use ==
            IF cfg.model \in names THEN cfg.model
            ELSE IF cfg.fallback_model \in names THEN cfg.fallback_model
            ELSE NoModel
    IN  IF ~probe.library THEN [base EXCEPT !.probes = 0]
        ELSE IF ~probe.transport_ok THEN base
        ELSE IF probe.status # HTTP_OK THEN base
        ELSE IF ~probe.parsable \/ probe.shape = "list"
             THEN [base EXCEPT !.ollama_client = "Client"]
        ELSE IF truthy_name(model_to_use)
             THEN [base EXCEPT !.ollama_client = "Client", !.available = TRUE,
                               !.config.model = model_to_use]
        ELSE [base EXCEPT !.ollama_client = "Client",
                          !.config.model = model_to_use]

\* a resolution that tests the resolved name with 'is not None' and so takes
\* an empty name for a model
initialize_ollama_is_not_none(cfg, probe) ==
    LET base == [config |-> cfg, ollama_client |-> "None", available |-> FALSE,
                 raised |-> FALSE, probes |-> 1]
        names == model_names(IF probe.shape = "dict" THEN probe.models ELSE <<>>)
        model_to_use ==
            IF cfg.model \in names THEN cfg.model
            ELSE IF cfg.fallback_model \in names THEN cfg.fallback_model
            ELSE NoModel
    IN  IF ~probe.library THEN [base EXCEPT !.probes = 0]
        ELSE IF ~probe.transport_ok THEN base
        ELSE IF probe.status # HTTP_OK THEN base
        ELSE IF ~probe.parsable \/ probe.shape = "list"
             THEN [base EXCEPT !.ollama_client = "Client"]
        ELSE IF model_to_use # NoModel
             THEN [base EXCEPT !.ollama_client = "Client", !.available = TRUE,
                               !.config.model = model_to_use]
        ELSE [base EXCEPT !.ollama_client = "Client"]

\* lines 51-97. Every exception of the try (the request failing, the body
\* not being JSON, the body being no mapping) is caught at line 96 and keeps
\* what was assigned before it: the client handle of line 65 stays set.
initialize_ollama(cfg, probe) ==
    LET base == [config |-> cfg, ollama_client |-> "None", available |-> FALSE,
                 raised |-> FALSE, probes |-> 1]
        names == model_names(IF probe.shape = "dict" THEN probe.models ELSE <<>>)
        model_to_use ==
            IF cfg.model \in names THEN cfg.model
            ELSE IF cfg.fallback_model \in names THEN cfg.fallback_model
            ELSE NoModel
    IN  IF ~probe.library THEN [base EXCEPT !.probes = 0]
        ELSE IF ~probe.transport_ok THEN base
        ELSE IF probe.status # HTTP_OK THEN base
        ELSE IF ~probe.parsable \/ probe.shape = "list"
             THEN [base EXCEPT !.ollama_client = "Client"]
        ELSE IF truthy_name(model_to_use)
             THEN [base EXCEPT !.ollama_client = "Client", !.available = TRUE,
                               !.config.model = model_to_use]
        ELSE [base EXCEPT !.ollama_client = "Client"]

----------------------------------------------------------------------------
(* Inputs *)

Pair(k, v) == [k |-> k, v |-> v]

\* the sample finding of test_ai_agent
F_sample ==
    << Pair(K_type, <<"i","a","m","_","w","i","l","d","c","a","r","d","_","p","o","l","i","c","y">>),
       Pair(K_severity, <<"H","i","g","h">>),
       Pair(K_resource_id, <<"a","r","n",":","a","w","s",":","i","a","m",":",":","1","2","3",":","r","o","l","e","/","t","e","s","t">>),
       Pair(K_description, <<"I","A","M"," ","r","o","l","e"," ","h","a","s"," ","w","i","l","d","c","a","r","d"," ","p","e","r","m","i","s","s","i","o","n","s">>) >>

F_empty == <<>>

F_critical ==
    << Pair(K_type, <<"i","a","m","_","p","o","l","i","c","y">>),
       Pair(K_severity, <<"C","r","i","t","i","c","a","l">>),
       Pair(K_description, <<"A","l","l","o","w","s"," ","*",":","*">>) >>

F_public ==
    << Pair(K_type, <<"p","u","b","l","i","c","_","s","3","_","b","u","c","k","e","t">>),
       Pair(K_severity, <<"M","e","d","i","u","m">>),
       Pair(K_description, <<"S","3"," ","b","u","c","k","e","t"," ","a","l","l","o","w","s"," ","p","u","b","l","i","c"," ","r","e","a","d"," ","a","c","c","e","s","s">>) >>

\* an additional key, and no severity
F_mfa ==
    << Pair(K_type, <<"r","o","o","t","_","a","c","c","o","u","n","t">>),
       Pair(<<"M","F","A","_","e","n","a","b","l","e","d">>, <<"f","a","l","s","e">>) >>

F_plain ==
    << Pair(K_type, <<"o","p","e","n","_","p","o","r","t">>),
       Pair(K_severity, <<"L","o","w">>),
       Pair(K_resource_id, <<"i","-","0","a","b","c">>),
       Pair(K_description, <<"P","o","r","t"," ","2","2"," ","o","p","e","n">>) >>

Findings == {F_sample, F_empty, F_critical, F_public, F_mfa, F_plain}

ERR_REFUSED == <<"C","o","n","n","e","c","t","i","o","n"," ","r","e","f","u","s","e","d">>

CombinedResponses ==
    { J_full, J_blank_item, J_empty, <<"\n">> \o J_partial \o <<" ">>, J_nulls,
      J_num_field, J_num_item, J_str_steps, J_array, T_truncated, T_prose, <<>> }

CombinedOutcomes ==
    {GenFailure(ERR_REFUSED)} \cup {GenSuccess(t) : t \in CombinedResponses}

TextResponses == { <<" ","D","a","t","a"," ","m","a","y"," ","b","e"," ","e","x","p","o","s","e","d",".","\n">>, <<>> }

TextOutcomes ==
    {GenFailure(ERR_REFUSED)} \cup {GenSuccess(t) : t \in TextResponses}

R_numbered == <<"S","u","r","e",":","\n","1","."," ","R","e","s","t","r","i","c","t"," ","t","h","e"," ","p","o","l","i","c","y","\n","2",")"," ","E","n","a","b","l","e"," ","M","F","A"," ","\n","\n","T","h","a","n","k","s">>
R_bulleted == <<"-"," ","C","l","o","s","e"," ","p","o","r","t","\n","#"," ","R","o","t","a","t","e"," ","k","e","y","s">>
R_prose == <<"R","e","s","t","r","i","c","t"," ","t","h","e"," ","p","o","l","i","c","y",".">>
R_markers_only == <<"1",".","\n","-">>

Alphabet == {"1", "a", "\n"}

\* every text over Alphabet of at most n characters
TextsUpTo(n) == UNION {[1..k -> Alphabet] : k \in 0..n}

RemediationResponses ==
    {R_numbered, R_bulleted, R_prose, R_markers_only} \cup TextsUpTo(MaxLen)

RemediationOutcomes ==
    {GenFailure(ERR_REFUSED)} \cup {GenSuccess(t) : t \in RemediationResponses}

M_primary == "llama3.1:8b"
M_fallback == "deepseek-r1:7b"
M_other == "mistral:7b"

\* the caller's Configuration: AIAgentConfig, or the MockAIConfig of
\* test_ai_agent, which has no fallback_model (getattr gives None)
Configurations ==
    [model : {M_primary, M_other}, fallback_model : {M_fallback, NoModel}]

Named(name) == [has_name |-> TRUE, name |-> name]
Unnamed == [has_name |-> FALSE, name |-> ""]

Listings ==
    { <<>>,
      <<Named(M_primary)>>,
      <<Unnamed, Named(M_fallback)>>,
      <<Named(M_fallback), Named(M_primary)>>,
      <<Named(M_other)>>,
      <<Named("phi3:mini"), Unnamed>> }

Probe(library, transport_ok, status, parsable, shape, models) ==
    [library |-> library, transport_ok |-> transport_ok, status |-> status,
     parsable |-> parsable, shape |-> shape, models |-> models]

\* what the registry probe can meet: the ollama package missing, the request
\* failing, a status other than 200, a body that is not JSON, a body that is
\* null or an array, and a mapping with a model list
ProbeOutcomes ==
    { Probe(FALSE, FALSE, 0, FALSE, "none", <<>>),
      Probe(TRUE, FALSE, 0, FALSE, "none", <<>>),
      Probe(TRUE, TRUE, 404, FALSE, "none", <<>>),
      Probe(TRUE, TRUE, 500, TRUE, "dict", <<Named(M_primary)>>),
      Probe(TRUE, TRUE, HTTP_OK, FALSE, "none", <<>>),
      Probe(TRUE, TRUE, HTTP_OK, TRUE, "null", <<>>),
      Probe(TRUE, TRUE, HTTP_OK, TRUE, "list", <<>>) }
    \cup {Probe(TRUE, TRUE, HTTP_OK, TRUE, "dict", l) : l \in Listings}

NoProbe == Probe(FALSE, FALSE, 0, FALSE, "unprobed", <<>>)

Callers == {"c1"}

----------------------------------------------------------------------------
(* State *)

VARIABLES
    config,                 \* the caller's Configuration (model, fallback_model)
    configured,             \* the Configuration as the caller made it
    phase,                  \* "Uninitialized" or "Constructed"
    ollama_client,          \* self.ollama_client: "None" or "Client"
    available,              \* self.available
    probe,                  \* what the registry probe met
    probes,                 \* registry requests issued so far
    ctor_raised,            \* an exception left the constructor
    pc,                     \* per caller: where its analyze_finding call is
    finding,                \* per caller: the argument of the call
    business_impact,        \* per caller: local of the decomposed strategy
    technical_explanation,  \* per caller: local of the decomposed strategy
    result,                 \* per caller: the value the call returned
    raised,                 \* per caller: an exception left the call
    calls,                  \* per caller: the generation calls of this request
    scans                   \* per caller: runs of _identify_risk_factors in this request

vars == <<config, configured, phase, ollama_client, available, probe, probes,
          ctor_raised, pc, finding, business_impact, technical_explanation,
          result, raised, calls, scans>>

orchestrator == <<config, configured, phase, ollama_client, available, probe,
                  probes, ctor_raised>>

Init ==
    /\ config \in Configurations
    /\ configured = config
    /\ phase = "Uninitialized"
    /\ ollama_client = "None"
    /\ available = FALSE
    /\ probe = NoProbe
    /\ probes = 0
    /\ ctor_raised = FALSE
    /\ pc = [c \in Callers |-> "idle"]
    /\ finding = [c \in Callers |-> <<>>]
    /\ business_impact = [c \in Callers |-> <<>>]
    /\ technical_explanation = [c \in Callers |-> <<>>]
    /\ result = [c \in Callers |-> NoAnalysis]
    /\ raised = [c \in Callers |-> FALSE]
    /\ calls = [c \in Callers |-> <<>>]
    /\ scans = [c \in Callers |-> 0]

\* lines 99-101
is_available == available /\ ollama_client # "None"

\* one generation call as the request's log keeps it
Call(kind, outcome) == [prompt |-> kind, model |-> config.model, outcome |-> outcome]

----------------------------------------------------------------------------
(* Operations *)

\* __init__: lines 43-49, with the probe of _initialize_ollama
ConstructOn(outcomes) ==
    /\ phase = "Uninitialized"
    /\ \E p \in outcomes :
          LET init == initialize_ollama(config, p)
          IN  /\ config' = init.config
              /\ ollama_client' = init.ollama_client
              /\ available' = init.available
              /\ ctor_raised' = init.raised
              /\ probes' = probes + init.probes
              /\ probe' = p
    /\ phase' = "Constructed"
    /\ UNCHANGED <<configured, pc, finding, business_impact,
                   technical_explanation, result, raised, calls, scans>>

\* the constructor, its probe meeting any of the outcomes
Construct == ConstructOn(ProbeOutcomes)

\* an analyze_finding that starts with the decomposed strategy
AnalyzeStart_decomposed_first(c) ==
    /\ phase = "Constructed"
    /\ ~ctor_raised
    /\ pc[c] = "idle"
    /\ \E f \in Findings :
          /\ finding' = [finding EXCEPT ![c] = f]
          /\ IF ~is_available
             THEN /\ result' = [result EXCEPT ![c] = generate_fallback_analysis(f)]
                  /\ pc' = [pc EXCEPT ![c] = "returned"]
             ELSE /\ result' = [result EXCEPT ![c] = NoAnalysis]
                  /\ pc' = [pc EXCEPT ![c] = "business"]
    /\ calls' = [calls EXCEPT ![c] = <<>>]
    /\ raised' = [raised EXCEPT ![c] = FALSE]
    /\ scans' = [scans EXCEPT ![c] = IF ~is_available THEN 1 ELSE 0]
    /\ UNCHANGED <<orchestrator, business_impact, technical_explanation>>

\* analyze_finding, lines 103-108: the synthetic analysis at once when the
\* agent is not available, the combined strategy next otherwise
AnalyzeStartOn(c, findings) ==
    /\ phase = "Constructed"
    /\ ~ctor_raised
    /\ pc[c] = "idle"
    /\ \E f \in findings :
          /\ finding' = [finding EXCEPT ![c] = f]
          /\ IF ~is_available
             THEN /\ result' = [result EXCEPT ![c] = generate_fallback_analysis(f)]
                  /\ pc' = [pc EXCEPT ![c] = "returned"]
             ELSE /\ result' = [result EXCEPT ![c] = NoAnalysis]
                  /\ pc' = [pc EXCEPT ![c] = "combined"]
    /\ calls' = [calls EXCEPT ![c] = <<>>]
    /\ raised' = [raised EXCEPT ![c] = FALSE]
    /\ scans' = [scans EXCEPT ![c] = IF ~is_available THEN 1 ELSE 0]
    /\ UNCHANGED <<orchestrator, business_impact, technical_explanation>>

\* analyze_finding called with any of the findings
AnalyzeStart(c) == AnalyzeStartOn(c, Findings)

\* a combined call that marks the agent unavailable when the call fails
CombinedCall_marks_unavailable(c) ==
    /\ pc[c] = "combined"
    /\ \E o \in CombinedOutcomes :
          LET combined == analyze_combined(is_available, o)
          IN  /\ calls' = [calls EXCEPT ![c] = Append(@, Call("combined", o))]
              /\ available' = (available /\ o.ok)
              /\ IF combined.raised
                 THEN /\ raised' = [raised EXCEPT ![c] = TRUE]
                      /\ pc' = [pc EXCEPT ![c] = "returned"]
                      /\ UNCHANGED result
                 ELSE IF ~combined.none
                 THEN /\ result' = [result EXCEPT ![c] = combined.analysis]
                      /\ pc' = [pc EXCEPT ![c] = "returned"]
                      /\ UNCHANGED raised
                 ELSE /\ pc' = [pc EXCEPT ![c] = "business"]
                      /\ UNCHANGED <<result, raised>>
    /\ UNCHANGED <<config, configured, phase, ollama_client, probe, probes,
                   ctor_raised, finding, business_impact, technical_explanation,
                   scans>>

\* a combined call with a circuit breaker: a failed generation call switches
\* the agent to unavailable for the requests that follow
CombinedCallOn_circuit_breaker(c, outcomes) ==
    /\ pc[c] = "combined"
    /\ \E o \in outcomes :
          LET combined == analyze_combined(is_available, o)
          IN  /\ calls' = [calls EXCEPT ![c] = Append(@, Call("combined", o))]
              /\ available' = (available /\ o.ok)
              /\ IF combined.raised
                 THEN /\ raised' = [raised EXCEPT ![c] = TRUE]
                      /\ pc' = [pc EXCEPT ![c] = "returned"]
                      /\ UNCHANGED result
                 ELSE IF ~combined.none
                 THEN /\ result' = [result EXCEPT ![c] = combined.analysis]
                      /\ pc' = [pc EXCEPT ![c] = "returned"]
                      /\ UNCHANGED raised
                 ELSE /\ pc' = [pc EXCEPT ![c] = "business"]
                      /\ UNCHANGED <<result, raised>>
    /\ UNCHANGED <<config, configured, phase, ollama_client, probe, probes,
                   ctor_raised, finding, business_impact, technical_explanation,
                   scans>>

\* lines 109-111: the combined call and its decoding; an analysis is returned,
\* None goes on to the decomposed strategy, an exception leaves the call
CombinedCallOn(c, outcomes) ==
    /\ pc[c] = "combined"
    /\ \E o \in outcomes :
          LET combined == analyze_combined(is_available, o)
          IN  /\ calls' = [calls EXCEPT ![c] = Append(@, Call("combined", o))]
              /\ IF combined.raised
                 THEN /\ raised' = [raised EXCEPT ![c] = TRUE]
                      /\ pc' = [pc EXCEPT ![c] = "returned"]
                      /\ UNCHANGED result
                 ELSE IF ~combined.none
                 THEN /\ result' = [result EXCEPT ![c] = combined.analysis]
                      /\ pc' = [pc EXCEPT ![c] = "returned"]
                      /\ UNCHANGED raised
                 ELSE /\ pc' = [pc EXCEPT ![c] = "business"]
                      /\ UNCHANGED <<result, raised>>
    /\ UNCHANGED <<orchestrator, finding, business_impact, technical_explanation,
                   scans>>

\* the combined call, answered in any of the ways of the server
CombinedCall(c) == CombinedCallOn(c, CombinedOutcomes)

\* a decomposed strategy that keeps the business impact in an attribute of
\* the agent (self.business_impact) and not in a local of the call
BusinessCallOn_instance_attribute(c, outcomes) ==
    /\ pc[c] = "business"
    /\ \E o \in outcomes :
          LET r == query_ai(is_available, o)
          IN  /\ calls' = [calls EXCEPT ![c] = Append(@, Call("business_impact", o))]
              /\ scans' = [scans EXCEPT ![c] = IF r.raised THEN @ + 1 ELSE @]
              /\ IF r.raised
                 THEN /\ result' = [result EXCEPT
                                      ![c] = generate_fallback_analysis(finding[c])]
                      /\ pc' = [pc EXCEPT ![c] = "returned"]
                      /\ UNCHANGED business_impact
                 ELSE /\ business_impact' =
                            [t \in DOMAIN business_impact |-> r.text]
                      /\ pc' = [pc EXCEPT ![c] = "technical"]
                      /\ UNCHANGED result
    /\ UNCHANGED <<orchestrator, finding, technical_explanation, raised>>

\* line 115, and the handler of lines 134-136 for an exception (the
\* synthetic analysis runs the risk-factor scan at line 275)
BusinessCallOn(c, outcomes) ==
    /\ pc[c] = "business"
    /\ \E o \in outcomes :
          LET r == query_ai(is_available, o)
          IN  /\ calls' = [calls EXCEPT ![c] = Append(@, Call("business_impact", o))]
              /\ scans' = [scans EXCEPT ![c] = IF r.raised THEN @ + 1 ELSE @]
              /\ IF r.raised
                 THEN /\ result' = [result EXCEPT
                                      ![c] = generate_fallback_analysis(finding[c])]
                      /\ pc' = [pc EXCEPT ![c] = "returned"]
                      /\ UNCHANGED business_impact
                 ELSE /\ business_impact' = [business_impact EXCEPT ![c] = r.text]
                      /\ pc' = [pc EXCEPT ![c] = "technical"]
                      /\ UNCHANGED result
    /\ UNCHANGED <<orchestrator, finding, technical_explanation, raised>>

\* the business-impact call, answered in any of the ways of the server
BusinessCall(c) == BusinessCallOn(c, TextOutcomes)

\* line 118, and the handler of lines 134-136 for an exception
TechnicalCallOn(c, outcomes) ==
    /\ pc[c] = "technical"
    /\ \E o \in outcomes :
          LET r == query_ai(is_available, o)
          IN  /\ calls' = [calls EXCEPT
                             ![c] = Append(@, Call("technical_explanation", o))]
              /\ scans' = [scans EXCEPT ![c] = IF r.raised THEN @ + 1 ELSE @]
              /\ IF r.raised
                 THEN /\ result' = [result EXCEPT
                                      ![c] = generate_fallback_analysis(finding[c])]
                      /\ pc' = [pc EXCEPT ![c] = "returned"]
                      /\ UNCHANGED technical_explanation
                 ELSE /\ technical_explanation' =
                            [technical_explanation EXCEPT ![c] = r.text]
                      /\ pc' = [pc EXCEPT ![c] = "remediation"]
                      /\ UNCHANGED result
    /\ UNCHANGED <<orchestrator, finding, business_impact, raised>>

\* the technical-explanation call, answered in any of the ways of the server
TechnicalCall(c) == TechnicalCallOn(c, TextOutcomes)

\* a decomposed strategy whose scan lower-cases the severity in place
\* (finding['severity'] = severity.lower() for line 204)
RemediationCall_normalises_severity(c) ==
    /\ pc[c] = "remediation"
    /\ \E o \in RemediationOutcomes :
          LET steps == generate_remediation_steps(is_available, o)
          IN  /\ calls' = [calls EXCEPT
                             ![c] = Append(@, Call("remediation_steps", o))]
              /\ result' = [result EXCEPT ![c] =
                    IF steps.raised
                    THEN generate_fallback_analysis(finding[c])
                    ELSE AIAnalysis(business_impact[c], technical_explanation[c],
                                    steps.list, identify_risk_factors(finding[c]),
                                    CONF_MODEL)]
    /\ pc' = [pc EXCEPT ![c] = "returned"]
    /\ scans' = [scans EXCEPT ![c] = @ + 1]
    /\ finding' = [finding EXCEPT ![c] =
          [i \in 1..Len(@) |->
              IF @[i].k = K_severity THEN Pair(@[i].k, lower(@[i].v)) ELSE @[i]]]
    /\ UNCHANGED <<orchestrator, business_impact, technical_explanation, raised>>

\* lines 121-132: the remediation call, the risk-factor scan and the
\* analysis of the decomposed strategy; lines 134-136 for an exception
RemediationCallOn(c, outcomes) ==
    /\ pc[c] = "remediation"
    /\ \E o \in outcomes :
          LET steps == generate_remediation_steps(is_available, o)
          IN  /\ calls' = [calls EXCEPT
                             ![c] = Append(@, Call("remediation_steps", o))]
              /\ result' = [result EXCEPT ![c] =
                    IF steps.raised
                    THEN generate_fallback_analysis(finding[c])
                    ELSE AIAnalysis(business_impact[c], technical_explanation[c],
                                    steps.list, identify_risk_factors(finding[c]),
                                    CONF_MODEL)]
    /\ pc' = [pc EXCEPT ![c] = "returned"]
    /\ scans' = [scans EXCEPT ![c] = @ + 1]
    /\ UNCHANGED <<orchestrator, finding, business_impact,
                   technical_explanation, raised>>

\* the remediation call, answered in any of the ways of the server
RemediationCall(c) == RemediationCallOn(c, RemediationOutcomes)

\* the caller takes what the call returned; the locals of the call are gone
Deliver(c) ==
    /\ pc[c] = "returned"
    /\ pc' = [pc EXCEPT ![c] = "idle"]
    /\ finding' = [finding EXCEPT ![c] = <<>>]
    /\ business_impact' = [business_impact EXCEPT ![c] = <<>>]
    /\ technical_explanation' = [technical_explanation EXCEPT ![c] = <<>>]
    /\ result' = [result EXCEPT ![c] = NoAnalysis]
    /\ raised' = [raised EXCEPT ![c] = FALSE]
    /\ calls' = [calls EXCEPT ![c] = <<>>]
    /\ scans' = [scans EXCEPT ![c] = 0]
    /\ UNCHANGED orchestrator

Next ==
    \/ Construct
    \/ \E c \in Callers : AnalyzeStart(c)
    \/ \E c \in Callers : CombinedCall(c)
    \/ \E c \in Callers : BusinessCall(c)
    \/ \E c \in Callers : TechnicalCall(c)
    \/ \E c \in Callers : RemediationCall(c)
    \/ \E c \in Callers : Deliver(c)

Spec == Init /\ [][Next]_vars

----------------------------------------------------------------------------
(* Properties *)

Returned(c) == pc[c] = "returned"

\* the prompts of a request's generation calls, in the order of issue
Prompts(c) == [i \in 1..Len(calls[c]) |-> calls[c][i].prompt]

\* some generation call of the request failed
SomeCallFailed(c) == \E i \in 1..Len(calls[c]) : ~calls[c][i].outcome.ok

\* the text the i-th generation call of the request answered, trimmed
Answer(c, i) == strip(calls[c][i].outcome.response)

StrategyPrompts ==
    <<"combined", "business_impact", "technical_explanation", "remediation_steps">>

C2_NeverEmpty ==
    \A c \in Callers :
        (Returned(c) /\ ~raised[c]) =>
            /\ result[c].remediation_steps # <<>>
            /\ result[c].risk_factors # <<>>

\* C3: when the agent is available and the combined call and a call of the
\* decomposed strategy have failed, the analysis returned is the synthetic
\* one, of confidence 0.3.
C3_FailureGivesSynthetic ==
    \A c \in Callers :
        ( /\ Returned(c)
          /\ is_available
          /\ Len(calls[c]) > 1
          /\ ~calls[c][1].outcome.ok
          /\ \E i \in 2..Len(calls[c]) : ~calls[c][i].outcome.ok )
        => result[c].confidence_score = 30

\* C4: in the Available state a request's calls are a prefix of combined,
\* business impact, technical explanation, remediation (so none is issued
\* twice and none before its predecessor); the decomposed calls follow a
\* combined call that gave no result; a synthetic analysis follows the
\* decomposed strategy.
C4_StrategyOrder ==
    \A c \in Callers :
        /\ Prompts(c) = SubSeq(StrategyPrompts, 1, Len(calls[c]))
        /\ pc[c] \in {"business", "technical", "remediation"} =>
              /\ Len(calls[c]) >= 1
              /\ is_available
        /\ Len(calls[c]) > 1 =>
              analyze_combined(TRUE, calls[c][1].outcome).none
        /\ (Returned(c) /\ is_available /\ ~raised[c]
              /\ result[c].confidence_score = CONF_SYNTHETIC)
           => Len(calls[c]) > 1

\* a request has gone through the combined call and the three decomposed ones
C4_Witness ==
    \E c \in Callers : Returned(c) /\ Len(calls[c]) = 4 /\ calls[c][1].outcome.ok

\* C5: with the registry unreachable, the analysis returned has confidence
\* 0.3, a business impact that contains the finding's severity and type (or
\* 'Medium' and 'Security Issue' for a missing key) and the four fixed steps.
C5_UnreachableSynthetic ==
    \A c \in Callers :
        (Returned(c) /\ probe.library /\ ~probe.transport_ok) =>
            LET f == finding[c]
                severity == IF HasKey(f, K_severity)
                            THEN f[CHOOSE i \in 1..Len(f) : f[i].k = K_severity].v
                            ELSE <<"M","e","d","i","u","m">>
                type == IF HasKey(f, K_type)
                        THEN f[CHOOSE i \in 1..Len(f) : f[i].k = K_type].v
                        ELSE <<"S","e","c","u","r","i","t","y"," ","I","s","s","u","e">>
            IN  /\ ~raised[c]
                /\ result[c].confidence_score = 30
                /\ Contains(result[c].business_impact, severity)
                /\ Contains(result[c].business_impact, type)
                /\ Len(result[c].remediation_steps) = 4
                /\ result[c].remediation_steps[1] = <<"R","e","v","i","e","w"," ","t","h","e"," ","s","e","c","u","r","i","t","y"," ","f","i","n","d","i","n","g"," ","d","e","t","a","i","l","s">>
                /\ result[c].remediation_steps[4] = <<"V","a","l","i","d","a","t","e"," ","a","n","d"," ","t","e","s","t"," ","t","h","e"," ","r","e","m","e","d","i","a","t","i","o","n">>

\* the registry was unreachable and a finding without a severity was analyzed
C5_Witness ==
    \E c \in Callers :
        /\ Returned(c) /\ probe.library /\ ~probe.transport_ok
        /\ ~HasKey(finding[c], K_severity)
        /\ HasKey(finding[c], K_type)

\* the combined answer of the request decodes to an object with the four keys
CarriesFourKeys(c) ==
    /\ Len(calls[c]) >= 1
    /\ calls[c][1].outcome.ok
    /\ LET dec == json_loads(Answer(c, 1))
       IN  /\ ~dec.raised
           /\ dec.doc.object
           /\ \A k \in {K_business_impact, K_technical_explanation,
                        K_remediation_steps, K_risk_factors} :
                 \E i \in 1..Len(dec.doc.members) : dec.doc.members[i].k = k

\* the value of a member, as text: a string as it is, a number by its digits
AsText(v) == IF v.t = "str" THEN v.s ELSE IF v.t = "num" THEN py_str(v) ELSE <<>>

\* a member that holds an array: its items as text, each trimmed
TrimmedItems(v) == [i \in 1..Len(v.items) |-> strip(AsText(v.items[i]))]

\* C6: when the combined answer decodes to an object carrying the four keys,
\* the request ends after that one call with an analysis of confidence 0.85
\* whose four fields are the payload's values, trimmed.
C6_CombinedPayloadReturned ==
    \A c \in Callers :
        (is_available /\ CarriesFourKeys(c)) =>
            LET doc == json_loads(Answer(c, 1)).doc
            IN  /\ Returned(c)
                /\ Len(calls[c]) = 1
                /\ result[c].confidence_score = CONF_MODEL
                /\ result[c].business_impact =
                      strip(AsText(json_get(doc, K_business_impact)))
                /\ result[c].technical_explanation =
                      strip(AsText(json_get(doc, K_technical_explanation)))
                /\ json_get(doc, K_remediation_steps).t = "list" =>
                      result[c].remediation_steps =
                          TrimmedItems(json_get(doc, K_remediation_steps))
                /\ json_get(doc, K_risk_factors).t = "list" =>
                      result[c].risk_factors =
                          TrimmedItems(json_get(doc, K_risk_factors))

\* the trimmed lines of a text that start with a digit, '-' or the bullet
MarkedLines(text) ==
    LET lines == split_lines(text)
    IN  SelectSeq([i \in 1..Len(lines) |-> strip(lines[i])],
                  LAMBDA l : l # <<>> /\ l[1] \in Digits \cup {"-", BULLET})

\* a marked line without its leading run of numbering and marker characters
Unmarked(l) ==
    LET k == CHOOSE n \in 0..Len(l) :
                 /\ \A j \in 1..n : l[j] \in MarkerChars
                 /\ n < Len(l) => l[n + 1] \notin MarkerChars
    IN  strip(SubSeq(l, k + 1, Len(l)))

\* the steps the numbered and bulleted lines of a text hold, the whole text
\* as the only step when they hold none
StepsOf(text) ==
    LET marked == MarkedLines(text)
        steps == SelectSeq([i \in 1..Len(marked) |-> Unmarked(marked[i])],
                           LAMBDA s : s # <<>>)
    IN  IF steps = <<>> THEN <<text>> ELSE steps

\* C7: when the combined answer does not decode and the three decomposed
\* calls answer with text, the analysis has confidence 0.85, the first and the
\* second decomposed answer as business impact and technical explanation, and
\* the steps of the third answer's numbered and bulleted lines.
C7_DecomposedFromText ==
    \A c \in Callers :
        ( /\ Returned(c)
          /\ is_available
          /\ Len(calls[c]) = 4
          /\ \A i \in 1..4 : calls[c][i].outcome.ok
          /\ json_loads(Answer(c, 1)).raised )
        => /\ ~raised[c]
           /\ result[c].confidence_score = CONF_MODEL
           /\ result[c].business_impact = Answer(c, 2)
           /\ result[c].technical_explanation = Answer(c, 3)
           /\ result[c].remediation_steps = StepsOf(Answer(c, 4))

\* prose on the combined call, a numbered list on the remediation call
C7_Witness ==
    \E c \in Callers :
        /\ Returned(c)
        /\ Len(calls[c]) = 4
        /\ calls[c][1].outcome = GenSuccess(T_prose)
        /\ calls[c][2].outcome.ok /\ calls[c][2].outcome.response # <<>>
        /\ calls[c][3].outcome.ok
        /\ calls[c][4].outcome = GenSuccess(R_numbered)
        /\ result[c].remediation_steps = << <<"R","e","s","t","r","i","c","t"," ","t","h","e"," ","p","o","l","i","c","y">>, <<"E","n","a","b","l","e"," ","M","F","A">> >>

\* the probe got status 200
ProbeSucceeded ==
    phase = "Constructed" /\ probe.library /\ probe.transport_ok /\ probe.status = 200

\* the model names of the listing the probe returned
Listed ==
    IF probe.parsable /\ probe.shape = "dict"
    THEN {n \in {M_primary, M_fallback, M_other, "phi3:mini"} :
            \E i \in 1..Len(probe.models) :
                probe.models[i].has_name /\ probe.models[i].name = n}
    ELSE {}

\* C8: after a probe of status 200 the resolved model is the configured
\* primary model when the listing has it, else the configured fallback model
\* when the listing has that; availability is then true and the
\* Configuration's model is the resolved one; with neither listed,
\* availability is false.
C8_ModelResolution ==
    ProbeSucceeded =>
        /\ configured.model \in Listed =>
              available /\ config.model = configured.model
        /\ (configured.model \notin Listed /\ configured.fallback_model \in Listed) =>
              available /\ config.model = configured.fallback_model
        /\ (configured.model \notin Listed /\ configured.fallback_model \notin Listed) =>
              ~available

\* primary and fallback are both listed; the primary was resolved
C8_Witness ==
    /\ ProbeSucceeded
    /\ {configured.model, configured.fallback_model} \subseteq Listed
    /\ configured.model # configured.fallback_model
    /\ available
    /\ config.model = configured.model

\* C9: the constructor ends without an exception, and after a transport
\* failure, a status other than 200 or an unparsable listing the agent is
\* not available.
C9_ConstructorSwallows ==
    phase = "Constructed" =>
        /\ ~ctor_raised
        /\ ( /\ probe.library
             /\ \/ ~probe.transport_ok
                \/ probe.status # 200
                \/ ~probe.parsable )
           => ~is_available

\* a status 200 whose body was not JSON: the handle is set, the agent is not
\* available
C9_Witness ==
    /\ phase = "Constructed"
    /\ probe.transport_ok /\ probe.status = 200 /\ ~probe.parsable
    /\ ollama_client = "Client"
    /\ ~is_available

\* C10: once the constructor has ended, no step changes available or issues
\* a registry request, and the constructor issued at most one.
C10_AvailabilityTerminal ==
    [][ /\ probes' <= 1
        /\ phase = "Constructed" =>
              /\ phase' = "Constructed"
              /\ available' = available
              /\ probes' = probes ]_vars

\* an available agent whose four generation calls of one request all failed
C10_Witness ==
    \E c \in Callers :
        /\ Returned(c)
        /\ available
        /\ probes = 1
        /\ Len(calls[c]) = 4
        /\ \A i \in 1..4 : ~calls[c][i].outcome.ok

\* the analysis of the request came from the combined strategy
CombinedRoute(c) == Returned(c) /\ ~raised[c] /\ Len(calls[c]) = 1

\* the analysis of the request came from the decomposed strategy or is the
\* synthetic one
FallbackRoute(c) == Returned(c) /\ ~raised[c] /\ Len(calls[c]) # 1

Has(seq, x) == \E i \in 1..Len(seq) : seq[i] = x

\* the value of the finding's severity key as the caller wrote it
SeverityOf(f) ==
    IF HasKey(f, K_severity)
    THEN f[CHOOSE i \in 1..Len(f) : f[i].k = K_severity].v
    ELSE <<>>

\* C11 as claimed: on every route, available or not, the analysis of a
\* finding whose text contains '*:*' has the risk factor 'Overly broad
\* permissions', and the analysis of a finding of severity 'Critical' has the
\* high-severity risk factor.
C11_ScanFactorsOnEveryRoute ==
    \A c \in Callers :
        (Returned(c) /\ ~raised[c]) =>
            /\ Contains(str_finding(finding[c]), <<"*",":","*">>) =>
                  Has(result[c].risk_factors, RF_BROAD)
            /\ SeverityOf(finding[c]) = <<"C","r","i","t","i","c","a","l">> =>
                  Has(result[c].risk_factors, RF_HIGH)

\* C11, amended: the same on the synthetic and on the decomposed route, in
\* the Available and in the Unavailable state; an analysis of the combined
\* route has the risk factors of the payload instead.
C11_ScanFactorsOnFallbackRoute ==
    \A c \in Callers :
        FallbackRoute(c) =>
            /\ Contains(str_finding(finding[c]), <<"*",":","*">>) =>
                  Has(result[c].risk_factors, RF_BROAD)
            /\ SeverityOf(finding[c]) = <<"C","r","i","t","i","c","a","l">> =>
                  Has(result[c].risk_factors, RF_HIGH)

\* a Critical finding with '*:*' went through the decomposed strategy
C11_Witness ==
    \E c \in Callers :
        /\ FallbackRoute(c)
        /\ is_available
        /\ Len(calls[c]) = 4
        /\ finding[c] = F_critical
        /\ result[c].confidence_score = CONF_MODEL
        /\ Has(result[c].risk_factors, RF_BROAD)
        /\ Has(result[c].risk_factors, RF_HIGH)

TextKeys == {K_business_impact, K_technical_explanation}

ListKeys == {K_remediation_steps, K_risk_factors}

\* the combined call of the request was answered with a text
CombinedAnswered(c) ==
    Len(calls[c]) >= 1 /\ is_available /\ calls[c][1].outcome.ok

\* the decoded combined answer of the request
CombinedDoc(c) == json_loads(Answer(c, 1)).doc

HasMember(doc, k) == \E i \in 1..Len(doc.members) : doc.members[i].k = k

\* the combined answer is a JSON object that lacks one of the four keys
FieldAbsent(c) ==
    /\ ~json_loads(Answer(c, 1)).raised
    /\ CombinedDoc(c).object
    /\ \E k \in TextKeys \cup ListKeys : ~HasMember(CombinedDoc(c), k)

\* every member the object has is null, a string (text keys) or an array of
\* strings (list keys)
WellTyped(doc) ==
    /\ \A k \in TextKeys : json_get(doc, k).t \in {"null", "str"}
    /\ \A k \in ListKeys :
          /\ json_get(doc, k).t \in {"null", "list"}
          /\ \A i \in 1..Len(json_get(doc, k).items) :
                json_get(doc, k).items[i].t = "str"

\* the field of an analysis that a key of the payload fills
FieldOf(a, k) ==
    IF k = K_business_impact THEN a.business_impact
    ELSE IF k = K_technical_explanation THEN a.technical_explanation
    ELSE IF k = K_remediation_steps THEN a.remediation_steps
    ELSE a.risk_factors

\* the request has gone on from the combined call to the decomposed strategy
WentOnToDecomposed(c) ==
    /\ ~raised[c]
    /\ pc[c] \in {"business", "technical", "remediation", "returned"}
    /\ Returned(c) => Len(calls[c]) = 4

\* C12 as claimed: a combined answer that is not JSON, or is a JSON object
\* that lacks one of the four keys, gives no combined result: the request
\* goes on to the decomposed strategy and no exception reaches the caller.
C12_MalformedOrIncomplete ==
    \A c \in Callers :
        (CombinedAnswered(c)
            /\ (json_loads(Answer(c, 1)).raised \/ FieldAbsent(c)))
        => WentOnToDecomposed(c)

\* C12, amended: a combined answer that is not JSON gives no combined result,
\* the request goes on to the decomposed strategy and no exception reaches
\* the caller; a JSON object that lacks one of the four keys (its other
\* members being strings and arrays of strings) is a combined result whose
\* field for each missing key is empty, and the decomposed strategy is not
\* attempted.
C12_MalformedFallsThrough ==
    \A c \in Callers :
        CombinedAnswered(c) =>
            /\ json_loads(Answer(c, 1)).raised => WentOnToDecomposed(c)
            /\ (FieldAbsent(c) /\ WellTyped(CombinedDoc(c))) =>
                  /\ CombinedRoute(c)
                  /\ result[c].confidence_score = CONF_MODEL
                  /\ \A k \in TextKeys \cup ListKeys :
                        ~HasMember(CombinedDoc(c), k) =>
                            FieldOf(result[c], k) = <<>>

\* a truncated JSON text on the combined call; the decomposed strategy
\* produced the analysis
C12_Witness ==
    \E c \in Callers :
        /\ Returned(c)
        /\ ~raised[c]
        /\ Len(calls[c]) = 4
        /\ calls[c][1].outcome = GenSuccess(T_truncated)
        /\ result[c].confidence_score = CONF_MODEL

\* C13: a combined answer that decodes gives a combined result, each field
\* of a missing key empty; the combined strategy reports no result only for
\* an answer that does not decode, and then without an exception.
C13_OnlyDecodeErrorGivesNone ==
    \A c \in Callers :
        CombinedAnswered(c) =>
            /\ ~raised[c]
            /\ ~json_loads(Answer(c, 1)).raised =>
                  /\ CombinedRoute(c)
                  /\ \A k \in TextKeys \cup ListKeys :
                        ~HasMember(CombinedDoc(c), k) =>
                            FieldOf(result[c], k) = <<>>
            /\ ~CombinedRoute(c) => json_loads(Answer(c, 1)).raised

\* C14: a step changes the Configuration only if it is the constructor's, it
\* changes only the model field, to a name of the listing that is the
\* configured primary or fallback model, and the agent is available after it;
\* so a constructor that resolved no model, and every step of analyze_finding,
\* leaves the Configuration as it was.
C14_ConfigurationWrittenOnce ==
    [][ config' # config =>
          /\ phase = "Uninitialized"
          /\ phase' = "Constructed"
          /\ available'
          /\ config'.fallback_model = config.fallback_model
          /\ config'.model \in {config.model, config.fallback_model}
          /\ \E i \in 1..Len(probe'.models) :
                probe'.models[i].has_name /\ probe'.models[i].name = config'.model
      ]_vars

\* the constructor resolved the fallback model and rewrote the Configuration;
\* a request went through its four generation calls afterwards
C14_Witness ==
    \E c \in Callers :
        /\ phase = "Constructed"
        /\ available
        /\ config.model # configured.model
        /\ config.model = configured.fallback_model
        /\ config.fallback_model = configured.fallback_model
        /\ Returned(c)
        /\ Len(calls[c]) = 4

\* C15: from the start of an analyze_finding call to its return, on every
\* path, no step changes the finding the caller passed.
C15_FindingNotMutated ==
    [][ \A c \in Callers :
            (pc[c] # "idle" /\ pc'[c] # "idle") => finding'[c] = finding[c]
      ]_vars

\* the sample finding went through the four generation calls and the scan
C15_Witness ==
    \E c \in Callers :
        /\ Returned(c)
        /\ Len(calls[c]) = 4
        /\ scans[c] = 1
        /\ finding[c] = F_sample
        /\ SeverityOf(finding[c]) = <<"H","i","g","h">>

----------------------------------------------------------------------------
(* Several callers on one agent *)

\* callers that share one constructed agent and call it concurrently
Threads == {"t1", "t2"}

\* the findings and the answers of the server in the concurrent runs
ConcFindings == {F_critical, F_plain}

ConcCombined ==
    {GenFailure(ERR_REFUSED), GenSuccess(J_full), GenSuccess(T_prose)}

ConcTexts == {GenFailure(ERR_REFUSED), GenSuccess(<<" ","D","a","t","a"," ","m","a","y"," ","b","e"," ","e","x","p","o","s","e","d",".","\n">>)}

ConcRemediation == {GenFailure(ERR_REFUSED), GenSuccess(R_bulleted)}

InitConc ==
    /\ config \in Configurations
    /\ configured = config
    /\ phase = "Uninitialized"
    /\ ollama_client = "None"
    /\ available = FALSE
    /\ probe = NoProbe
    /\ probes = 0
    /\ ctor_raised = FALSE
    /\ pc = [t \in Threads |-> "idle"]
    /\ finding = [t \in Threads |-> <<>>]
    /\ business_impact = [t \in Threads |-> <<>>]
    /\ technical_explanation = [t \in Threads |-> <<>>]
    /\ result = [t \in Threads |-> NoAnalysis]
    /\ raised = [t \in Threads |-> FALSE]
    /\ calls = [t \in Threads |-> <<>>]
    /\ scans = [t \in Threads |-> 0]

\* the steps of the callers interleave at the generation calls
NextConc ==
    \/ Construct
    \/ \E t \in Threads : AnalyzeStartOn(t, ConcFindings)
    \/ \E t \in Threads : CombinedCallOn(t, ConcCombined)
    \/ \E t \in Threads : BusinessCallOn(t, ConcTexts)
    \/ \E t \in Threads : TechnicalCallOn(t, ConcTexts)
    \/ \E t \in Threads : RemediationCallOn(t, ConcRemediation)
    \/ \E t \in Threads : Deliver(t)

SpecConc == InitConc /\ [][NextConc]_vars

\* analyze_finding run by itself against the answers outs of the server
AnalyzeAlone(is_avail, f, outs) ==
    IF ~is_avail THEN generate_fallback_analysis(f)
    ELSE LET combined == analyze_combined(is_avail, outs[1])
         IN  IF ~combined.none THEN combined.analysis
             ELSE LET bi == query_ai(is_avail, outs[2])
                      te == query_ai(is_avail, outs[3])
                      steps == generate_remediation_steps(is_avail, outs[4])
                  IN  AIAnalysis(bi.text, te.text, steps.list,
                                 identify_risk_factors(f), CONF_MODEL)

\* the answers the server gave to the request's generation calls
Outcomes(t) == [i \in 1..Len(calls[t]) |-> calls[t][i].outcome]

\* C16: with several callers on one agent, a request starts only after the
\* constructor has ended, every generation call names the model the
\* constructor left in the Configuration, every analysis returned is the one
\* the request would give by itself against the same answers, and no step
\* after the constructor changes available, the client handle or the
\* Configuration.
C16_NoInterference ==
    /\ [](\A t \in DOMAIN pc :
            /\ pc[t] # "idle" => phase = "Constructed"
            /\ \A i \in 1..Len(calls[t]) : calls[t][i].model = config.model
            /\ (Returned(t) /\ ~raised[t]) =>
                  result[t] = AnalyzeAlone(is_available, finding[t], Outcomes(t)))
    /\ [][ phase = "Constructed" =>
              UNCHANGED <<available, ollama_client, config>> ]_vars

\* two requests in flight at once, with different findings and different
\* business impacts; the first has returned from the decomposed strategy
C16_Witness ==
    /\ DOMAIN pc = Threads
    /\ Returned("t1") /\ Len(calls["t1"]) = 4
    /\ result["t1"].confidence_score = CONF_MODEL
    /\ pc["t2"] = "remediation"
    /\ finding["t1"] # finding["t2"]
    /\ business_impact["t1"] # business_impact["t2"]

\* the server answered the generation calls that both requests issued alike
SameAnswers(t, u) ==
    \A i \in 1..Len(calls[t]) :
        i <= Len(calls[u]) => calls[t][i].outcome = calls[u][i].outcome

\* C17: two requests on one agent with the same finding, answered alike by
\* the server, return the same analysis (all five fields) after the same
\* number of generation calls, whether the first has ended before the second
\* starts or not.
C17_SameFindingSameAnalysis ==
    \A t, u \in DOMAIN pc :
        ( /\ Returned(t) /\ ~raised[t]
          /\ Returned(u) /\ ~raised[u]
          /\ finding[t] = finding[u]
          /\ SameAnswers(t, u) )
        => /\ result[t] = result[u]
           /\ Len(calls[t]) = Len(calls[u])

\* two requests for the same finding have returned from the decomposed
\* strategy, the combined call of each having failed
C17_Witness ==
    /\ DOMAIN pc = Threads
    /\ Returned("t1") /\ Returned("t2")
    /\ finding["t1"] = F_critical /\ finding["t2"] = F_critical
    /\ Len(calls["t1"]) = 4 /\ Len(calls["t2"]) = 4
    /\ SameAnswers("t1", "t2")
    /\ ~calls["t1"][1].outcome.ok
    /\ result["t1"] = result["t2"]
    /\ result["t1"].confidence_score = CONF_MODEL

\* the risk factors of the scan, in the order the scan reports them
ScanOrder == <<RF_BROAD, RF_PUBLIC, RF_MFA, RF_HIGH>>

\* the scan reports risk factor r for finding f
Applies(f, r) ==
    LET text == lower(str_finding(f))
    IN  \/ r = RF_BROAD /\ (Contains(text, <<"w","i","l","d","c","a","r","d">>) \/ Contains(text, <<"*",":","*">>))
        \/ r = RF_PUBLIC /\ Contains(text, <<"p","u","b","l","i","c">>)
        \/ r = RF_MFA /\ Contains(text, <<"m","f","a">>)
        \/ r = RF_HIGH /\ lower(SeverityOf(f)) \in {<<"c","r","i","t","i","c","a","l">>, <<"h","i","g","h">>}

ScanOutput(f) == SelectSeq(ScanOrder, LAMBDA r : Applies(f, r))

\* the same for each of the findings, computed once
ScanOf == [f \in Findings |-> ScanOutput(f)]

\* the risk_factors array of the combined answer: its items trimmed, the
\* blank ones left out
PayloadFactors(c) ==
    SelectSeq(TrimmedItems(json_get(CombinedDoc(c), K_risk_factors)),
              LAMBDA s : s # <<>>)

\* C18 as claimed: on the decomposed and the synthetic route the risk factors
\* are the scan's output in its fixed order, on the combined route they are
\* the payload's own, and the scan has run in every request that returned.
C18_DualPolicyScanAlways ==
    \A c \in Callers :
        (Returned(c) /\ ~raised[c]) =>
            /\ FallbackRoute(c) => result[c].risk_factors = ScanOf[finding[c]]
            /\ CombinedRoute(c) => result[c].risk_factors = PayloadFactors(c)
            /\ scans[c] >= 1

\* C18, amended: on the decomposed and the synthetic route the risk factors
\* are the scan's output in its fixed order and the scan has run once; on the
\* combined route they are the payload's own and the scan has not run.
C18_DualPolicy ==
    \A c \in Callers :
        (Returned(c) /\ ~raised[c]) =>
            /\ FallbackRoute(c) =>
                  /\ result[c].risk_factors = ScanOf[finding[c]]
                  /\ scans[c] = 1
            /\ CombinedRoute(c) =>
                  /\ result[c].risk_factors = PayloadFactors(c)
                  /\ scans[c] = 0

\* the sample finding (wildcard, High) on the decomposed route: two risk
\* factors, broad permissions before high severity
C18_Witness ==
    \E c \in Callers :
        /\ FallbackRoute(c)
        /\ Len(calls[c]) = 4
        /\ finding[c] = F_sample
        /\ scans[c] = 1
        /\ result[c].risk_factors = <<RF_BROAD, RF_HIGH>>

----------------------------------------------------------------------------
(* The remediation response, line by line *)

\* digits, list markers, the characters that follow a number, text and the
\* line break
ParseAlphabet == {"1", "-", BULLET, ".", " ", "a", "\n"}

ParseResponses == UNION {[1..k -> ParseAlphabet] : k \in 0..MaxParseLen}

ParseOutcomes ==
    {GenFailure(ERR_REFUSED)} \cup {GenSuccess(t) : t \in ParseResponses}

\* an agent that the constructor left available
InitParse ==
    /\ config = [model |-> M_primary, fallback_model |-> M_fallback]
    /\ configured = config
    /\ phase = "Constructed"
    /\ ollama_client = "Client"
    /\ available = TRUE
    /\ probe = Probe(TRUE, TRUE, HTTP_OK, TRUE, "dict", <<Named(M_primary)>>)
    /\ probes = 1
    /\ ctor_raised = FALSE
    /\ pc = [c \in Callers |-> "idle"]
    /\ finding = [c \in Callers |-> <<>>]
    /\ business_impact = [c \in Callers |-> <<>>]
    /\ technical_explanation = [c \in Callers |-> <<>>]
    /\ result = [c \in Callers |-> NoAnalysis]
    /\ raised = [c \in Callers |-> FALSE]
    /\ calls = [c \in Callers |-> <<>>]
    /\ scans = [c \in Callers |-> 0]

\* requests whose combined answer is prose, so that each reaches the
\* remediation call; that call is answered with every text over ParseAlphabet
NextParse ==
    \/ \E c \in Callers : AnalyzeStartOn(c, {F_plain, F_sample})
    \/ \E c \in Callers : CombinedCallOn(c, {GenSuccess(T_prose)})
    \/ \E c \in Callers : BusinessCallOn(c, {GenSuccess(R_prose)})
    \/ \E c \in Callers : TechnicalCallOn(c, {GenSuccess(R_prose)})
    \/ \E c \in Callers : RemediationCallOn(c, ParseOutcomes)
    \/ \E c \in Callers : Deliver(c)

SpecParse == InitParse /\ [][NextParse]_vars

\* the text _query_ai returned for the i-th generation call of the request
Returned_text(c, i) ==
    IF calls[c][i].outcome.ok THEN Answer(c, i)
    ELSE <<"A","I"," ","a","n","a","l","y","s","i","s"," ","f","a","i","l","e","d",":"," ">> \o calls[c][i].outcome.error

----------------------------------------------------------------------------

\* C20: a request that has returned issued no generation call when the agent
\* is not available (and the registry got no request beyond the
\* constructor's), exactly one when the combined answer gave a result, and
\* otherwise exactly four, in the order combined, business impact, technical
\* explanation, remediation, whichever of them failed.
C20_GenerationCallCount ==
    \A c \in Callers :
        (Returned(c) /\ ~raised[c]) =>
            /\ Len(calls[c]) \in {0, 1, 4}
            /\ Len(calls[c]) = 0 <=> ~is_available
            /\ ~is_available => probes = (IF probe.library THEN 1 ELSE 0)
            /\ Len(calls[c]) = 1 <=>
                  (is_available /\ ~analyze_combined(TRUE, calls[c][1].outcome).none)
            /\ Len(calls[c]) = 4 => Prompts(c) = StrategyPrompts

\* the business-impact call failed; the two calls after it were issued
C20_Witness ==
    \E c \in Callers :
        /\ Returned(c)
        /\ Len(calls[c]) = 4
        /\ calls[c][1].outcome.ok
        /\ ~calls[c][2].outcome.ok
        /\ calls[c][3].outcome.ok
        /\ calls[c][4].outcome.ok

----------------------------------------------------------------------------
(* Orchestrators over one Configuration *)

\* orchestrators constructed, one after the other, over the same
\* Configuration
MaxOrchestrators == 2

\* also a Configuration whose model is the empty string, which the dataclass
\* allows and only validate() rejects
ConfigurationsWithEmpty ==
    Configurations \cup {[model |-> "", fallback_model |-> NoModel]}

\* also listings with an entry of empty name and an entry whose name is null
ProbeOutcomesWithEmpty ==
    ProbeOutcomes \cup
    { Probe(TRUE, TRUE, HTTP_OK, TRUE, "dict", <<Named("")>>),
      Probe(TRUE, TRUE, HTTP_OK, TRUE, "dict", <<Named(NoModel), Named(M_other)>>) }

InitAgain ==
    /\ config \in ConfigurationsWithEmpty
    /\ configured = config
    /\ phase = "Uninitialized"
    /\ ollama_client = "None"
    /\ available = FALSE
    /\ probe = NoProbe
    /\ probes = 0
    /\ ctor_raised = FALSE
    /\ pc = [c \in Callers |-> "idle"]
    /\ finding = [c \in Callers |-> <<>>]
    /\ business_impact = [c \in Callers |-> <<>>]
    /\ technical_explanation = [c \in Callers |-> <<>>]
    /\ result = [c \in Callers |-> NoAnalysis]
    /\ raised = [c \in Callers |-> FALSE]
    /\ calls = [c \in Callers |-> <<>>]
    /\ scans = [c \in Callers |-> 0]

\* __init__ of a further orchestrator over the Configuration as the earlier
\* one left it, its probe meeting the same registry answer; the agent fields
\* are those of the orchestrator constructed last
ConstructAgain ==
    /\ phase = "Constructed"
    /\ probes < MaxOrchestrators
    /\ LET init == initialize_ollama(config, probe)
       IN  /\ config' = init.config
           /\ ollama_client' = init.ollama_client
           /\ available' = init.available
           /\ ctor_raised' = init.raised
           /\ probes' = probes + init.probes
    /\ UNCHANGED <<configured, phase, probe, pc, finding, business_impact,
                   technical_explanation, result, raised, calls, scans>>

NextAgain ==
    \/ ConstructOn(ProbeOutcomesWithEmpty)
    \/ ConstructAgain
    \/ \E c \in Callers : AnalyzeStartOn(c, {F_sample})
    \/ \E c \in Callers : CombinedCallOn(c, ConcCombined)
    \/ \E c \in Callers : BusinessCallOn(c, ConcTexts)
    \/ \E c \in Callers : TechnicalCallOn(c, ConcTexts)
    \/ \E c \in Callers : RemediationCallOn(c, ConcRemediation)
    \/ \E c \in Callers : Deliver(c)

SpecAgain == InitAgain /\ [][NextAgain]_vars

\* the names of the listing's entries, whatever they are
ListedNames ==
    IF probe.parsable /\ probe.shape = "dict"
    THEN {probe.models[i].name :
             i \in {j \in 1..Len(probe.models) : probe.models[j].has_name}}
    ELSE {}

\* C21: in every state, available implies that the client handle is set and
\* that the Configuration's model is a non-empty name of the listing the
\* probe returned, so is_available() equals available; and the constructor
\* of a further orchestrator over the same Configuration and listing leaves
\* the Configuration's model, the availability and the handle as they were.
C21_AvailableImpliesResolved ==
    /\ [](/\ available =>
               /\ ollama_client # "None"
               /\ config.model \notin {"", NoModel}
               /\ config.model \in ListedNames
          /\ is_available = available)
    /\ [][ (phase = "Constructed" /\ probes' # probes) =>
              /\ config' = config
              /\ available' = available
              /\ ollama_client' = ollama_client ]_vars

\* a first orchestrator resolved the fallback model and rewrote the
\* Configuration; a second one was constructed and the agent is available
C21_Witness ==
    /\ phase = "Constructed"
    /\ probes = 2
    /\ available
    /\ ollama_client = "Client"
    /\ configured.model \notin ListedNames
    /\ config.model = configured.fallback_model
    /\ config.model \in ListedNames

====
